---- MODULE Spec2Model ----
(***************************************************************************)
(* Model of DocDataExtraction/extract_faq_to_json.ipynb: clean_line, the   *)
(* paragraph loop of read_faq (the Q&A segmentation pass) and the course   *)
(* loop that aggregates the parsed documents and dumps documents.json.     *)
(*                                                                         *)
(* A Python string is a sequence of characters; the characters that the    *)
(* code distinguishes are a space, a line break, the byte-order mark and   *)
(* ordinary letters.                                                       *)
(***************************************************************************)
EXTENDS Integers, Sequences, FiniteSets, TLC

\* ------------------------------------------------------------ characters
SP  == "SP"     \* ' '
NL  == "NL"     \* '\n'
BOM == "BOM"    \* '﻿' (not whitespace for str.strip())

Whitespace == {SP, NL}

\* ------------------------------------------------------------ bounds
\* longest document (number of paragraphs) the paragraph loop is run on
MaxParagraphs == 4

\* longest line clean_line is applied to on its own
MaxLineLen == 4

\* longest document of plain paragraphs
MaxPlainParagraphs == 5

\* longest document over all the style names
MaxStyledParagraphs == 3

\* ------------------------------------------------------------ str.strip
RECURSIVE lstrip(_, _)
lstrip(s, chars) ==
    IF s # <<>> /\ Head(s) \in chars THEN lstrip(Tail(s), chars) ELSE s

RECURSIVE rstrip(_, _)
rstrip(s, chars) ==
    IF s # <<>> /\ s[Len(s)] \in chars
    THEN rstrip(SubSeq(s, 1, Len(s) - 1), chars)
    ELSE s

\* s.strip(chars): every leading and every trailing character of chars goes
strip(s, chars) == rstrip(lstrip(s, chars), chars)

\* the two strips in the other order
clean_line_BomFirst(line) == strip(strip(line, {BOM}), Whitespace)

\* line.strip(); line.strip('﻿')
clean_line(line) == strip(strip(line, Whitespace), {BOM})

\* ------------------------------------------------------------ styles
\* the style names in use, and the strings lower() makes of them
AllStyleNames ==
    { "Heading 1", "HEADING 1", "heading 1",
      "Heading 2", "HEADING 2", "heading 2",
      "Heading 3", "heading 3",
      "Normal", "normal", "Title", "title" }

\* the characters of each of these strings
Spelling ==
    [n \in AllStyleNames |->
        CASE n = "Heading 1" -> <<"H", "e", "a", "d", "i", "n", "g", " ", "1">>
          [] n = "HEADING 1" -> <<"H", "E", "A", "D", "I", "N", "G", " ", "1">>
          [] n = "heading 1" -> <<"h", "e", "a", "d", "i", "n", "g", " ", "1">>
          [] n = "Heading 2" -> <<"H", "e", "a", "d", "i", "n", "g", " ", "2">>
          [] n = "HEADING 2" -> <<"H", "E", "A", "D", "I", "N", "G", " ", "2">>
          [] n = "heading 2" -> <<"h", "e", "a", "d", "i", "n", "g", " ", "2">>
          [] n = "Heading 3" -> <<"H", "e", "a", "d", "i", "n", "g", " ", "3">>
          [] n = "heading 3" -> <<"h", "e", "a", "d", "i", "n", "g", " ", "3">>
          [] n = "Normal"    -> <<"N", "o", "r", "m", "a", "l">>
          [] n = "normal"    -> <<"n", "o", "r", "m", "a", "l">>
          [] n = "Title"     -> <<"T", "i", "t", "l", "e">>
          [] n = "title"     -> <<"t", "i", "t", "l", "e">>]

UpperLetters == <<"A", "D", "E", "G", "H", "I", "L", "M", "N", "O", "R", "T">>
LowerLetters == <<"a", "d", "e", "g", "h", "i", "l", "m", "n", "o", "r", "t">>

\* str.lower() on one character: an upper-case letter becomes its lower-case
\* letter, every other character stays
LowerChar(c) ==
    IF \E i \in DOMAIN UpperLetters : UpperLetters[i] = c
    THEN LowerLetters[CHOOSE i \in DOMAIN UpperLetters : UpperLetters[i] = c]
    ELSE c

\* str.lower() of each style name, character by character
LowerName ==
    [n \in AllStyleNames |->
        CHOOSE m \in AllStyleNames :
            Spelling[m] = [i \in DOMAIN Spelling[n] |-> LowerChar(Spelling[n][i])]]

\* the style name compared as it is
lower_Identity(name) == name

\* p.style.name.lower()
lower(name) == LowerName[name]

question_heading_style == "heading 2"
section_heading_style  == "heading 1"

StyleNames == {"Heading 1", "Heading 2", "Normal"}

\* raw paragraph texts: a blank line, a plain line, a line behind a BOM, and
\* a space between two BOMs
RawTexts ==
    { <<SP>>, <<"a">>, <<BOM, "b">>, <<BOM, SP, BOM>> }

\* one element of doc.paragraphs
Paragraphs == [style : StyleNames, text : RawTexts]

\* paragraphs of plain text, with and without a BOM
PlainParagraphs == [style : StyleNames, text : {<<"a">>, <<BOM, "b">>}]

\* paragraphs of every style name
StyledParagraphs == [style : AllStyleNames, text : {<<"a">>}]

\* the lines clean_line is applied to on its own
LineChars == {SP, NL, BOM, "a"}
Lines == UNION { [1..n -> LineChars] : n \in 0..MaxLineLen }

\* ------------------------------------------------------------ read_faq
\* the blank-line check left out
IsEmptyLine_Never(p_text) == FALSE

\* `not p_text`
IsEmptyLine(p_text) == p_text = <<>>

\* the check of question_title left out
ShouldSave_NoQuestionCheck(answer, section, question) ==
    strip(answer, Whitespace) # <<>> /\ section # <<>>

\* the untrimmed answer tested
ShouldSave_Untrimmed(answer, section, question) ==
    answer # <<>> /\ section # <<>> /\ question # <<>>

\* answer_text_so_far.strip() and section_title and question_title
ShouldSave(answer, section, question) ==
    strip(answer, Whitespace) # <<>> /\ section # <<>> /\ question # <<>>

\* the dictionary appended to questions
Entry(answer, section, question) ==
    [text |-> strip(answer, Whitespace), section |-> section, question |-> question]

\* the local variables of read_faq before the loop
InitialState ==
    [section_title |-> <<>>, question_title |-> <<>>,
     answer_text_so_far |-> <<>>, questions |-> <<>>]

\* a section heading also drops the open question and its pending answer
LoopBody_SectionClosesQuestion(st, p) ==
    LET style  == lower(p.style)
        p_text == clean_line(p.text)
    IN  IF IsEmptyLine(p_text) THEN st
        ELSE IF style = section_heading_style
        THEN [st EXCEPT !.section_title = p_text,
                        !.question_title = <<>>,
                        !.answer_text_so_far = <<>>]
        ELSE IF style = question_heading_style
        THEN IF ShouldSave(st.answer_text_so_far, st.section_title, st.question_title)
             THEN [st EXCEPT
                     !.questions = Append(@, Entry(st.answer_text_so_far,
                                                   st.section_title, st.question_title)),
                     !.answer_text_so_far = <<>>,
                     !.question_title = p_text]
             ELSE [st EXCEPT !.question_title = p_text]
        ELSE [st EXCEPT !.answer_text_so_far = @ \o <<NL>> \o p_text]

\* the `continue` of the question branch missing: the heading's text falls
\* through to the accumulation
LoopBody_QuestionFallsThrough(st, p) ==
    LET style  == lower(p.style)
        p_text == clean_line(p.text)
    IN  IF IsEmptyLine(p_text) THEN st
        ELSE IF style = section_heading_style
        THEN [st EXCEPT !.section_title = p_text]
        ELSE IF style = question_heading_style
        THEN IF ShouldSave(st.answer_text_so_far, st.section_title, st.question_title)
             THEN [st EXCEPT
                     !.questions = Append(@, Entry(st.answer_text_so_far,
                                                   st.section_title, st.question_title)),
                     !.answer_text_so_far = <<NL>> \o p_text,
                     !.question_title = p_text]
             ELSE [st EXCEPT !.question_title = p_text,
                             !.answer_text_so_far = @ \o <<NL>> \o p_text]
        ELSE [st EXCEPT !.answer_text_so_far = @ \o <<NL>> \o p_text]

\* one iteration of `for p in doc.paragraphs`
LoopBody(st, p) ==
    LET style  == lower(p.style)
        p_text == clean_line(p.text)
    IN  IF IsEmptyLine(p_text) THEN st
        ELSE IF style = section_heading_style
        THEN [st EXCEPT !.section_title = p_text]
        ELSE IF style = question_heading_style
        THEN IF ShouldSave(st.answer_text_so_far, st.section_title, st.question_title)
             THEN [st EXCEPT
                     !.questions = Append(@, Entry(st.answer_text_so_far,
                                                   st.section_title, st.question_title)),
                     !.answer_text_so_far = <<>>,
                     !.question_title = p_text]
             ELSE [st EXCEPT !.question_title = p_text]
        ELSE [st EXCEPT !.answer_text_so_far = @ \o <<NL>> \o p_text]

\* the last Record put in front of the list
AfterLoop_InFront(st) ==
    IF ShouldSave(st.answer_text_so_far, st.section_title, st.question_title)
    THEN <<Entry(st.answer_text_so_far, st.section_title, st.question_title)>>
             \o st.questions
    ELSE st.questions

\* the last Record appended without the check
AfterLoop_Unconditional(st) ==
    Append(st.questions,
           Entry(st.answer_text_so_far, st.section_title, st.question_title))

\* the statements after the loop: the last question and answer
AfterLoop(st) ==
    IF ShouldSave(st.answer_text_so_far, st.section_title, st.question_title)
    THEN Append(st.questions,
                Entry(st.answer_text_so_far, st.section_title, st.question_title))
    ELSE st.questions

\* the loop over a whole paragraph list
RECURSIVE RunLoop(_, _)
RunLoop(st, ps) ==
    IF ps = <<>> THEN st ELSE RunLoop(LoopBody(st, Head(ps)), Tail(ps))

\* read_faq from `questions = []` to `return questions`
ParseParagraphs(ps) == AfterLoop(RunLoop(InitialState, ps))

\* ------------------------------------------------------------ courses
\* the dictionary of courses, in insertion (= iteration) order
faq_documents ==
    << [course |-> "data-engineering-zoomcamp",
        file_id |-> "19bnYs80DwuUimHM65UV3sylsCn2j1vziPOwzBwQrebw"],
       [course |-> "machine-learning-zoomcamp",
        file_id |-> "1LpPanc33QJJ6BSsyxVg-pWNMplal84TdZtq10naIhD8"],
       [course |-> "mlops-zoomcamp",
        file_id |-> "12TlBfhIiKtyBv8RnsoJR6F72bkPDGEvPOItJIxaEzE0"] >>

Para(style, text) == [style |-> style, text |-> text]

\* documents a file id may export
SampleDocs ==
    { <<>>,
      << Para("Heading 1", <<"a">>), Para("Heading 2", <<"a">>), Para("Normal", <<"a">>) >>,
      << Para("Heading 1", <<"a">>), Para("Heading 2", <<BOM, "b">>), Para("Normal", <<"a">>),
         Para("Heading 2", <<"a">>), Para("Normal", <<BOM, "b">>), Para("Normal", <<"a">>) >>,
      << Para("Normal", <<BOM, "b">>), Para("Heading 1", <<BOM, "b">>),
         Para("Heading 2", <<"a">>), Para("Normal", <<"a">>) >>,
      << Para("Heading 1", <<"a">>), Para("Heading 2", <<"a">>), Para("Normal", <<"a">>),
         Para("Heading 1", <<BOM, "b">>), Para("Heading 2", <<BOM, "b">>),
         Para("Normal", <<SP>>), Para("Normal", <<BOM, "b">>) >> }

\* what requests.get(url) returns: the exported document, or an error status
Responses ==
    { [status_code |-> 200, paragraphs |-> d] : d \in SampleDocs }
      \cup { [status_code |-> 404, paragraphs |-> <<>>] }

\* response.raise_for_status() raises
RaisesForStatus(response) == response.status_code >= 400

\* read_faq(file_id), given the response to its request, when nothing raises
read_faq(response) == ParseParagraphs(response.paragraphs)

\* the new entry put in front
AppendDocument_InFront(docs, course, course_documents) ==
    <<[course |-> course, documents |-> course_documents]>> \o docs

\* documents.append({'course': course, 'documents': course_documents})
AppendDocument(docs, course, course_documents) ==
    Append(docs, [course |-> course, documents |-> course_documents])

\* ------------------------------------------------------------ state
VARIABLES
    paragraphs,          \* the paragraphs of doc.paragraphs iterated so far
    section_title, question_title, answer_text_so_far, questions,
    pc,                  \* "loop" inside the for loop, "done" at the return
    responses,           \* the response each course's request got, in loop order
    documents,           \* the list the course loop appends to
    documents_json,      \* what json.dump wrote (once cell = "written")
    cell,                \* "courses": in the course loop; "raised": a cell
                         \* raised and the run stopped; "written": the file is dumped
    line,                \* the argument of a call of clean_line
    cleaned,             \* what that call returned
    cleaned_again,       \* what clean_line returned for that result
    calls                \* how many calls of clean_line returned

parseVars == <<paragraphs, section_title, question_title, answer_text_so_far,
               questions, pc>>
courseVars == <<responses, documents, documents_json, cell>>
cleanVars == <<line, cleaned, cleaned_again, calls>>
vars == <<parseVars, courseVars, cleanVars>>

State ==
    [section_title |-> section_title, question_title |-> question_title,
     answer_text_so_far |-> answer_text_so_far, questions |-> questions]

ParseInit ==
    /\ paragraphs = <<>>
    /\ section_title = <<>>
    /\ question_title = <<>>
    /\ answer_text_so_far = <<>>
    /\ questions = <<>>
    /\ pc = "loop"

CourseInit ==
    /\ responses = <<>>
    /\ documents = <<>>
    /\ documents_json = <<>>
    /\ cell = "courses"

Init ==
    /\ ParseInit
    /\ CourseInit
    /\ line = <<>>
    /\ cleaned = <<>>
    /\ cleaned_again = <<>>
    /\ calls = 0

\* ---------------------------------------------- the paragraph loop, stepwise
\* the loop takes paragraph p
Take(p) ==
    LET st == LoopBody(State, p)
    IN  /\ pc = "loop"
        /\ paragraphs' = Append(paragraphs, p)
        /\ section_title' = st.section_title
        /\ question_title' = st.question_title
        /\ answer_text_so_far' = st.answer_text_so_far
        /\ questions' = st.questions
        /\ pc' = "loop"
        /\ UNCHANGED <<courseVars, cleanVars>>

Iterate(p) ==
    /\ Len(paragraphs) < MaxParagraphs
    /\ Take(p)

SkipEmptyLine ==
    \E p \in Paragraphs :
        /\ clean_line(p.text) = <<>>
        /\ Iterate(p)

SectionHeading ==
    \E p \in Paragraphs :
        /\ clean_line(p.text) # <<>>
        /\ lower(p.style) = section_heading_style
        /\ Iterate(p)

QuestionHeading ==
    \E p \in Paragraphs :
        /\ clean_line(p.text) # <<>>
        /\ lower(p.style) = question_heading_style
        /\ Iterate(p)

AccumulateAnswer ==
    \E p \in Paragraphs :
        /\ clean_line(p.text) # <<>>
        /\ lower(p.style) \notin {section_heading_style, question_heading_style}
        /\ Iterate(p)

\* doc.paragraphs is exhausted: the final save and the return
Return ==
    /\ pc = "loop"
    /\ questions' = AfterLoop(State)
    /\ pc' = "done"
    /\ UNCHANGED <<paragraphs, section_title, question_title, answer_text_so_far>>
    /\ UNCHANGED <<courseVars, cleanVars>>

Next ==
    \/ SkipEmptyLine
    \/ SectionHeading
    \/ QuestionHeading
    \/ AccumulateAnswer
    \/ Return

Spec == Init /\ [][Next]_vars

\* ---------------------------------------------- the loop on other documents
\* the loop takes a paragraph of a document of plain paragraphs
IteratePlain ==
    \E p \in PlainParagraphs :
        /\ Len(paragraphs) < MaxPlainParagraphs
        /\ Take(p)

PlainNext ==
    \/ IteratePlain
    \/ Return

PlainSpec == Init /\ [][PlainNext]_vars

\* the loop is synchronous code: it always takes its next step
FairPlainSpec == Init /\ [][PlainNext]_vars /\ WF_vars(PlainNext)

\* the loop takes a paragraph of a document that uses every style name
IterateStyled ==
    \E p \in StyledParagraphs :
        /\ Len(paragraphs) < MaxStyledParagraphs
        /\ Take(p)

StyledNext ==
    \/ IterateStyled
    \/ Return

StyledSpec == Init /\ [][StyledNext]_vars

\* ---------------------------------------------- clean_line on its own
CleanInit ==
    /\ ParseInit
    /\ CourseInit
    /\ line \in Lines
    /\ cleaned = <<>>
    /\ cleaned_again = <<>>
    /\ calls = 0

\* clean_line(line)
CleanLine ==
    /\ calls = 0
    /\ cleaned' = clean_line(line)
    /\ calls' = 1
    /\ UNCHANGED <<line, cleaned_again, parseVars, courseVars>>

\* clean_line applied to its own result
CleanAgain ==
    /\ calls = 1
    /\ cleaned_again' = clean_line(cleaned)
    /\ calls' = 2
    /\ UNCHANGED <<line, cleaned, parseVars, courseVars>>

CleanNext ==
    \/ CleanLine
    \/ CleanAgain

CleanSpec == CleanInit /\ [][CleanNext]_vars

\* ---------------------------------------------- the course loop and the dump
\* one iteration of `for course, file_id in faq_documents.items()` that succeeds
ReadCourse ==
    /\ cell = "courses"
    /\ Len(responses) < Len(faq_documents)
    /\ \E response \in Responses :
          /\ ~RaisesForStatus(response)
          /\ responses' = Append(responses, response)
          /\ documents' = AppendDocument(documents,
                              faq_documents[Len(responses) + 1].course,
                              read_faq(response))
    /\ UNCHANGED <<documents_json, cell, parseVars, cleanVars>>

\* read_faq raises: nothing catches it, the loop and the cells after it do not run
ReadCourseRaises ==
    /\ cell = "courses"
    /\ Len(responses) < Len(faq_documents)
    /\ \E response \in Responses :
          /\ RaisesForStatus(response)
          /\ responses' = Append(responses, response)
    /\ cell' = "raised"
    /\ UNCHANGED <<documents, documents_json, parseVars, cleanVars>>

\* the loop is over: json.dump(documents, f_out, indent=2)
DumpDocuments ==
    /\ cell = "courses"
    /\ Len(responses) = Len(faq_documents)
    /\ documents_json' = documents
    /\ cell' = "written"
    /\ UNCHANGED <<responses, documents, parseVars, cleanVars>>

CourseNext ==
    \/ ReadCourse
    \/ ReadCourseRaises
    \/ DumpDocuments

CourseSpec == Init /\ [][CourseNext]_vars

\* ============================================================ claims
\* ---------------------------------------------- vocabulary of the claims
Trim(s) == strip(s, Whitespace)

NormText(p) == clean_line(p.text)

IsSection(p)  == lower(p.style) = "heading 1"
IsQuestion(p) == lower(p.style) = "heading 2"
IsBody(p)     == ~IsSection(p) /\ ~IsQuestion(p)

\* the positions of the question headings that open a question
QuestionAt(ps) == {j \in 1..Len(ps) : IsQuestion(ps[j]) /\ NormText(ps[j]) # <<>>}

\* the positions of all blocks styled as question headings
QuestionStyledAt(ps) == {j \in 1..Len(ps) : IsQuestion(ps[j])}

Min(S) == CHOOSE x \in S : \A y \in S : x <= y

\* the first position after j that lies in stops, or the end of the input
NextStop(ps, j, stops) ==
    Min({k \in stops : k > j} \cup {Len(ps) + 1})

\* texts joined by line breaks
RECURSIVE JoinLines(_)
JoinLines(ts) ==
    IF ts = <<>> THEN <<>>
    ELSE IF Len(ts) = 1 THEN ts[1]
    ELSE ts[1] \o <<NL>> \o JoinLines(Tail(ts))

\* the normalized texts of the Body blocks at positions from..to, in order;
\* blank ones are kept or left out
RECURSIVE BodyTexts(_, _, _, _)
BodyTexts(ps, from, to, keepBlank) ==
    IF from > to THEN <<>>
    ELSE IF IsBody(ps[from]) /\ (keepBlank \/ NormText(ps[from]) # <<>>)
         THEN <<NormText(ps[from])>> \o BodyTexts(ps, from + 1, to, keepBlank)
         ELSE BodyTexts(ps, from + 1, to, keepBlank)

\* the answers the interval of question heading j may stand for: the interval
\* ends at the next question heading (blank ones counted or not)
IntervalAnswers(ps, j) ==
    { Trim(JoinLines(BodyTexts(ps, j + 1, NextStop(ps, j, stops) - 1, keepBlank))) :
        stops \in {QuestionAt(ps), QuestionStyledAt(ps)}, keepBlank \in BOOLEAN }

\* the lines of a text
LinesOf(s) ==
    { SubSeq(s, i, j) : <<i, j>> \in
        { ij \in (1..Len(s) + 1) \X (0..Len(s)) :
            /\ ij[2] >= ij[1] - 1
            /\ \A k \in ij[1]..ij[2] : s[k] # NL
            /\ (ij[1] = 1 \/ s[ij[1] - 1] = NL)
            /\ (ij[2] = Len(s) \/ s[ij[2] + 1] = NL) } }

Range(f) == {f[i] : i \in DOMAIN f}

\* C1: every Record's answer is the trimmed, line-joined normalized text of
\* exactly the Body blocks between its own question heading and the next one
\* (or the end of the input).
C1_AnswerIsItsInterval ==
    pc = "done" =>
        \A r \in Range(questions) :
            \E j \in QuestionAt(paragraphs) :
                /\ NormText(paragraphs[j]) = r.question
                /\ r.text \in IntervalAnswers(paragraphs, j)

\* C2: Body text from before the first question heading appears in no Record's
\* answer (stated for preamble texts that no later Body block repeats).
C2_PreambleNeverInAnswer ==
    pc = "done" =>
        LET ps    == paragraphs
            first == NextStop(ps, 0, QuestionAt(ps))
            pre   == { Trim(NormText(ps[i])) :
                         i \in {k \in 1..Len(ps) : k < first /\ IsBody(ps[k])} }
            later == { Trim(NormText(ps[i])) :
                         i \in {k \in 1..Len(ps) : k > first /\ IsBody(ps[k])} }
        IN  \A t \in (pre \ later) \ {<<>>} :
                \A r \in Range(questions) :
                    t \notin { Trim(l) : l \in LinesOf(r.text) }

\* ---------------------------------------------- C3
\* the step taken is a flush point: a question heading with non-blank text was
\* processed, or the input ended
FlushPoint ==
    \/ pc = "loop" /\ pc' = "done"
    \/ /\ Len(paragraphs') = Len(paragraphs) + 1
       /\ IsQuestion(paragraphs'[Len(paragraphs')])
       /\ NormText(paragraphs'[Len(paragraphs')]) # <<>>

\* C3: at every flush point a Record is appended if and only if the section,
\* the question and the trimmed pending answer are all non-empty then (and the
\* Record carries them); no other step appends; no Record has an empty field.
C3_FlushIffAllNonEmpty ==
    [][ LET complete == /\ section_title # <<>>
                        /\ question_title # <<>>
                        /\ Trim(answer_text_so_far) # <<>>
        IN  /\ FlushPoint /\ complete =>
                questions' = Append(questions,
                                 [text |-> Trim(answer_text_so_far),
                                  section |-> section_title,
                                  question |-> question_title])
            /\ ~(FlushPoint /\ complete) => questions' = questions
            /\ \A r \in Range(questions') :
                   r.section # <<>> /\ r.question # <<>> /\ r.text # <<>>
      ]_vars

\* two question headings and the end of input were flush points, one appended
C3_Witness ==
    /\ pc = "done"
    /\ Cardinality(QuestionAt(paragraphs)) = 2
    /\ Len(questions) = 1

\* ---------------------------------------------- C4
\* each Record as a section heading, a question heading and a body block
ExpandRecords(rs) ==
    [i \in 1..(3 * Len(rs)) |->
        LET r == rs[(i + 2) \div 3]
        IN  CASE i % 3 = 1 -> Para("Heading 1", r.section)
              [] i % 3 = 2 -> Para("Heading 2", r.question)
              [] OTHER     -> Para("Normal", r.text)]

\* C4: expanding the emitted Records back to blocks and segmenting them again
\* yields the same Records.
C4_RoundTrip ==
    pc = "done" => ParseParagraphs(ExpandRecords(questions)) = questions

\* ---------------------------------------------- C5
\* C5: a question heading immediately followed by another question heading
\* yields no Record for the first one (stated for a first question whose text
\* no other question heading carries).
C5_NoRecordForUnansweredQuestion ==
    pc = "done" =>
        \A j \in QuestionAt(paragraphs) :
            ( /\ j + 1 \in QuestionAt(paragraphs)
              /\ \A k \in QuestionAt(paragraphs) \ {j} :
                     NormText(paragraphs[k]) # NormText(paragraphs[j]) )
            => \A r \in Range(questions) : r.question # NormText(paragraphs[j])

\* ---------------------------------------------- C7
\* C7: no more Records than blocks styled as question headings.
C7_RecordsAtMostQuestions ==
    Len(questions) <= Cardinality(QuestionStyledAt(paragraphs))

\* every question heading of the input got its Record
C7_Witness ==
    /\ pc = "done"
    /\ Len(questions) >= 1
    /\ Len(questions) = Cardinality(QuestionStyledAt(paragraphs))

\* ---------------------------------------------- C8
\* the input without the blocks whose normalized text is empty
WithoutBlank(ps) == SelectSeq(ps, LAMBDA p : NormText(p) # <<>>)

\* C8: blocks with empty normalized text change nothing: the loop's variables,
\* and the returned Records, are those of the input without such blocks.
C8_BlankBlockIsNoOp ==
    IF pc = "loop"
    THEN State = RunLoop(InitialState, WithoutBlank(paragraphs))
    ELSE questions = ParseParagraphs(WithoutBlank(paragraphs))

\* a blank question heading sat between an answered question and the end
C8_Witness ==
    /\ pc = "done"
    /\ questions # <<>>
    /\ \E i \in 2..Len(paragraphs) :
          /\ NormText(paragraphs[i]) = <<>>
          /\ IsQuestion(paragraphs[i])
          /\ IsBody(paragraphs[i - 1])

\* ---------------------------------------------- C9
\* one section heading, then groups of one question heading and one or more
\* Body blocks, every normalized text non-empty
WellFormed(ps) ==
    /\ Len(ps) >= 1
    /\ IsSection(ps[1])
    /\ \A i \in 1..Len(ps) : NormText(ps[i]) # <<>>
    /\ \A i \in 2..Len(ps) : ~IsSection(ps[i])
    /\ Len(ps) >= 2 => IsQuestion(ps[2])
    /\ \A i \in 2..Len(ps) : IsQuestion(ps[i]) => i < Len(ps) /\ IsBody(ps[i + 1])

\* C9: on well-formed input the pass emits one Record per group, in order,
\* with the section, the group's question and the group's Body texts joined by
\* line breaks; the last group is emitted by the final flush.
C9_WellFormedYieldsAllGroups ==
    (pc = "done" /\ WellFormed(paragraphs)) =>
        LET ps == paragraphs
            qs == QuestionAt(ps)
        IN  /\ Len(questions) = Cardinality(qs)
            /\ \A j \in qs :
                 LET n      == Cardinality({i \in qs : i <= j})
                     joined == JoinLines(BodyTexts(ps, j + 1, NextStop(ps, j, qs) - 1, TRUE))
                 IN  /\ questions[n].section = NormText(ps[1])
                     /\ questions[n].question = NormText(ps[j])
                     /\ questions[n].text \in {joined, Trim(joined)}

\* ---------------------------------------------- C6
\* the run is over: the file is dumped, or a cell raised
RunEnded == cell \in {"written", "raised"}

\* C6: a course whose read_faq raises is left out, and every other course of
\* the mapping is still processed and persisted to documents.json.
C6_FailureIsLocal ==
    RunEnded =>
        \A i \in 1..Len(faq_documents) :
            /\ i <= Len(responses)
            /\ ~RaisesForStatus(responses[i]) =>
                  [course |-> faq_documents[i].course,
                   documents |-> ParseParagraphs(responses[i].paragraphs)]
                      \in Range(documents_json)
            /\ RaisesForStatus(responses[i]) =>
                  \A d \in Range(documents_json) : d.course # faq_documents[i].course

\* ---------------------------------------------- C10
\* C10: when every course succeeds, documents.json holds one {course,
\* documents} entry per entry of faq_documents, in its order, and each entry's
\* documents are the Records of that course's document, in emission order,
\* the answer under the key text.
C10_OneEntryPerCourseInOrder ==
    cell = "written" =>
        /\ Len(documents_json) = Len(faq_documents)
        /\ \A i \in 1..Len(faq_documents) :
              /\ DOMAIN documents_json[i] = {"course", "documents"}
              /\ documents_json[i].course = faq_documents[i].course
              /\ documents_json[i].documents = ParseParagraphs(responses[i].paragraphs)
              /\ \A r \in Range(documents_json[i].documents) :
                     DOMAIN r = {"text", "section", "question"}

\* three courses dumped, the first two with different, non-empty documents
C10_Witness ==
    /\ cell = "written"
    /\ documents_json[1].documents # <<>>
    /\ documents_json[2].documents # <<>>
    /\ documents_json[1].documents # documents_json[2].documents

\* ---------------------------------------------- C12
\* the block processed last
LastParagraph == paragraphs[Len(paragraphs)]

\* C12: after a question heading with non-empty normalized text is processed,
\* the pending answer is empty, whether or not a Record was saved.
C12_AnswerEmptyAfterQuestion ==
    ( /\ pc = "loop"
      /\ paragraphs # <<>>
      /\ IsQuestion(LastParagraph)
      /\ NormText(LastParagraph) # <<>> )
    => answer_text_so_far = <<>>

\* ---------------------------------------------- C13
\* the step taken processed a section heading with non-empty normalized text
SectionStep ==
    /\ Len(paragraphs') = Len(paragraphs) + 1
    /\ IsSection(paragraphs'[Len(paragraphs')])
    /\ NormText(paragraphs'[Len(paragraphs')]) # <<>>

\* C13: a section heading sets the current section to its normalized text and
\* leaves the output, the current question and the pending answer as they are.
C13_SectionHeadingOnlySetsSection ==
    [][ SectionStep =>
          /\ section_title' = NormText(paragraphs'[Len(paragraphs')])
          /\ questions' = questions
          /\ question_title' = question_title
          /\ answer_text_so_far' = answer_text_so_far
      ]_vars

\* a section heading arrived while a question was open with a pending answer
C13_Witness ==
    /\ pc = "loop"
    /\ Len(paragraphs) >= 2
    /\ IsSection(LastParagraph)
    /\ NormText(LastParagraph) # <<>>
    /\ section_title = NormText(LastParagraph)
    /\ question_title # <<>>
    /\ answer_text_so_far # <<>>

\* ---------------------------------------------- C14
\* the normalized text of the latest section heading before position j
SectionBefore(ps, j) ==
    LET at == {i \in 1..(j - 1) : IsSection(ps[i]) /\ NormText(ps[i]) # <<>>}
    IN  IF at = {} THEN <<>>
        ELSE NormText(ps[CHOOSE i \in at : \A k \in at : k <= i])

\* C14: every Record is filed under the section that was current when its own
\* question heading was processed.
C14_SectionOfQuestionHeading ==
    pc = "done" =>
        \A r \in Range(questions) :
            \E j \in QuestionAt(paragraphs) :
                /\ NormText(paragraphs[j]) = r.question
                /\ SectionBefore(paragraphs, j) = r.section

\* ---------------------------------------------- C15
\* what the accumulation makes of a list of texts
RECURSIVE Accumulated(_)
Accumulated(ts) ==
    IF ts = <<>> THEN <<>> ELSE <<NL>> \o Head(ts) \o Accumulated(Tail(ts))

\* the accumulations of the Body blocks of the stretches from..to of the input
BodyAccumulations(ps) ==
    { Accumulated(BodyTexts(ps, from, to, FALSE)) :
        from \in 1..(Len(ps) + 1), to \in 0..Len(ps) }

C15_OnlyBodyText ==
    /\ answer_text_so_far \in BodyAccumulations(paragraphs)
    /\ \A r \in Range(questions) :
           r.text \in { Trim(a) : a \in BodyAccumulations(paragraphs) }

C15_GrowsAtFlushPoints ==
    /\ Len(questions') <= Len(questions) + 1
    /\ SubSeq(questions', 1, Len(questions)) = questions
    /\ questions' # questions => FlushPoint

\* C15: the pending answer, and every Record's answer, is made of the
\* normalized texts of Body blocks only (a stretch of them, each behind a line
\* break); the output grows only at a question heading or at the end of the
\* input, by at most one Record.
C15_AnswerAccumulatesOnlyBodies ==
    []C15_OnlyBodyText /\ [][C15_GrowsAtFlushPoints]_vars

\* a Record was saved from two Body blocks behind a section and a question heading
C15_Witness ==
    /\ pc = "done"
    /\ Len(paragraphs) = 4
    /\ IsSection(paragraphs[1]) /\ IsQuestion(paragraphs[2])
    /\ IsBody(paragraphs[3]) /\ IsBody(paragraphs[4])
    /\ Len(questions) = 1
    /\ questions[1].text = NormText(paragraphs[3]) \o <<NL>> \o NormText(paragraphs[4])

\* ---------------------------------------------- C11
Strings == Seq(LineChars \cup {"b"})

C11_ReturnsRecords ==
    /\ pc \in {"loop", "done"}
    /\ DOMAIN questions = 1..Len(questions)
    /\ \A r \in Range(questions) :
          /\ DOMAIN r = {"text", "section", "question"}
          /\ r.text \in Strings /\ r.section \in Strings /\ r.question \in Strings
    /\ (pc = "done" /\ paragraphs = <<>>) => questions = <<>>

\* whatever the state, the loop accepts every paragraph and can reach the return
C11_NeverStuck ==
    pc = "loop" =>
        /\ ENABLED Return
        /\ Len(paragraphs) < MaxPlainParagraphs =>
               \A p \in PlainParagraphs : ENABLED Take(p)

\* a step inside the loop consumes exactly one block, the return none
C11_OneBlockPerStep ==
    /\ pc' = "loop" => paragraphs' = Append(paragraphs, paragraphs'[Len(paragraphs')])
    /\ pc' = "done" => paragraphs' = paragraphs

\* C11: on every finite input, malformed or empty, the pass takes each block
\* once, never gets stuck, reaches the return and returns a sequence of
\* Records; the empty input returns the empty sequence.
C11_TerminatesOnEveryInput ==
    /\ [](C11_ReturnsRecords /\ C11_NeverStuck)
    /\ [][C11_OneBlockPerStep]_vars
    /\ <>(pc = "done")

\* an input of Body blocks only has returned, with no Record
C11_Witness ==
    /\ pc = "done"
    /\ questions = <<>>
    /\ Len(paragraphs) >= 3
    /\ \A i \in 1..Len(paragraphs) : IsBody(paragraphs[i]) /\ NormText(paragraphs[i]) # <<>>

\* ---------------------------------------------- C16
Max(S) == CHOOSE x \in S : \A y \in S : y <= x

\* s from its first to its last character outside chars
Between(s, chars) ==
    LET keep == {i \in 1..Len(s) : s[i] \notin chars}
    IN  IF keep = {} THEN <<>> ELSE SubSeq(s, Min(keep), Max(keep))

\* surrounding whitespace stripped, then one leading BOM removed
StripThenOneLeadingBOM(s) ==
    LET t == Between(s, Whitespace)
    IN  IF t # <<>> /\ t[1] = BOM THEN SubSeq(t, 2, Len(t)) ELSE t

\* C16 as stated: clean_line strips the surrounding whitespace and then removes
\* one leading BOM, and nothing else.
C16_StripThenOneLeadingBOM ==
    calls >= 1 => cleaned = StripThenOneLeadingBOM(line)

\* C16 as amended: clean_line strips the surrounding whitespace and then every
\* leading and every trailing BOM, and nothing else.
C16_StripThenSurroundingBOMs ==
    calls >= 1 => cleaned = Between(Between(line, Whitespace), {BOM})

\* a line with whitespace, a leading and a trailing BOM was cleaned
C16_Witness ==
    /\ calls >= 1
    /\ line = <<SP, BOM, "a", BOM>>
    /\ cleaned = <<"a">>

\* ---------------------------------------------- C17
UpperChar(c) ==
    IF \E i \in DOMAIN LowerLetters : LowerLetters[i] = c
    THEN UpperLetters[CHOOSE i \in DOMAIN LowerLetters : LowerLetters[i] = c]
    ELSE c

\* two style names are equal but for the case of their letters
SameIgnoringCase(a, b) ==
    /\ Len(Spelling[a]) = Len(Spelling[b])
    /\ \A i \in DOMAIN Spelling[a] :
           UpperChar(Spelling[a][i]) = UpperChar(Spelling[b][i])

C17_Dispatch ==
    LET p == paragraphs'[Len(paragraphs')]
        t == NormText(p)
        complete == /\ section_title # <<>>
                    /\ question_title # <<>>
                    /\ Trim(answer_text_so_far) # <<>>
    IN  (Len(paragraphs') = Len(paragraphs) + 1 /\ t # <<>>) =>
          IF SameIgnoringCase(p.style, "heading 1")
          THEN /\ section_title' = t
               /\ UNCHANGED <<question_title, answer_text_so_far, questions>>
          ELSE IF SameIgnoringCase(p.style, "heading 2")
          THEN /\ question_title' = t
               /\ section_title' = section_title
               /\ answer_text_so_far' = IF complete THEN <<>> ELSE answer_text_so_far
               /\ Len(questions') = IF complete THEN Len(questions) + 1 ELSE Len(questions)
          ELSE /\ answer_text_so_far' = answer_text_so_far \o <<NL>> \o t
               /\ UNCHANGED <<section_title, question_title, questions>>

\* C17: a block is a section heading exactly if its style name is the section
\* label but for case, a question heading exactly if it is the question label
\* but for case, and a Body block, appended to the pending answer, otherwise.
C17_DispatchIgnoresCase == [][C17_Dispatch]_vars

\* an upper-case section heading, a lower-case question heading and a Title
C17_Witness ==
    /\ pc = "done"
    /\ Len(paragraphs) = 3
    /\ paragraphs[1].style = "HEADING 1"
    /\ paragraphs[2].style = "heading 2"
    /\ paragraphs[3].style = "Title"
    /\ Len(questions) = 1

\* ---------------------------------------------- C18
RECURSIVE IsSubsequence(_, _)
IsSubsequence(a, b) ==
    IF a = <<>> THEN TRUE
    ELSE IF b = <<>> THEN FALSE
    ELSE IF Head(a) = Head(b) THEN IsSubsequence(Tail(a), Tail(b))
    ELSE IsSubsequence(a, Tail(b))

\* the normalized texts of the question headings, in input order
QuestionTexts(ps) ==
    LET hs == SelectSeq(ps, LAMBDA p : IsQuestion(p) /\ NormText(p) # <<>>)
    IN  [i \in 1..Len(hs) |-> NormText(hs[i])]

\* C18: the Records follow the order of their question headings, one Record
\* at most for each heading: their questions, in output order, are the texts
\* of distinct question headings taken in input order.
C18_RecordsInHeadingOrder ==
    IsSubsequence([i \in 1..Len(questions) |-> questions[i].question],
                  QuestionTexts(paragraphs))

\* two Records for two different questions
C18_Witness ==
    /\ pc = "done"
    /\ Len(questions) = 2
    /\ questions[1].question # questions[2].question

\* ---------------------------------------------- C19
\* C19: clean_line applied to its own result changes nothing, and its result
\* neither begins nor ends with whitespace or a BOM.
C19_CleanLineIdempotent ==
    calls = 2 =>
        /\ cleaned_again = cleaned
        /\ cleaned # <<>> =>
              /\ cleaned[1] \notin Whitespace \cup {BOM}
              /\ cleaned[Len(cleaned)] \notin Whitespace \cup {BOM}

====
